---- MODULE Spec2Model ----
(***************************************************************************)
(* Savitzky-Golay weights (src/src/math.rs) and the smoothing filter       *)
(* (src/src/filter.rs).                                                    *)
(*                                                                         *)
(* f64 values are modelled as exact rationals <<num, den>> in lowest terms *)
(* with den > 0, extended with the three non-finite IEEE values:           *)
(*   <<1, 0>> = +inf, <<-1, 0>> = -inf, <<0, 0>> = NaN.                    *)
(* Rounding is not modelled; division by zero, inf/NaN propagation and the *)
(* underflow of exp() on a hugely negative argument are.                   *)
(***************************************************************************)
EXTENDS Integers, Sequences, FiniteSets, TLC

\* ------------------------------------------------------------------ bounds
MaxRadius == 2
MaxDegree == 3
MaxDerivative == 1
MaxLen == 7

\* ------------------------------------------------------------ f64 arithmetic
Abs(x) == IF x < 0 THEN -x ELSE x

Sign(x) == IF x < 0 THEN -1 ELSE IF x > 0 THEN 1 ELSE 0

RECURSIVE Gcd(_, _)
Gcd(a, b) == IF b = 0 THEN a ELSE Gcd(b, a % b)

\* n/d as an f64: lowest terms, positive denominator; d = 0 gives +-inf or NaN.
Norm(n, d) ==
    IF d = 0 THEN <<Sign(n), 0>>
    ELSE LET g == Gcd(Abs(n), Abs(d))
         IN  IF d < 0 THEN <<(-n) \div g, (-d) \div g>> ELSE <<n \div g, d \div g>>

\* `x as f64` for an integer x
F64(x) == <<x, 1>>

NaN == <<0, 0>>

IsFinite(x) == x[2] # 0

FMul(x, y) ==
    IF x[2] = 0 \/ y[2] = 0 THEN <<Sign(x[1] * y[1]), 0>>
    ELSE IF x[1] = 0 \/ y[1] = 0 THEN <<0, 1>>
    ELSE IF x[2] = 1 /\ y[2] = 1 THEN <<x[1] * y[1], 1>>
    ELSE LET g1 == Gcd(Abs(x[1]), y[2])
             g2 == Gcd(Abs(y[1]), x[2])
         IN  <<(x[1] \div g1) * (y[1] \div g2), (x[2] \div g2) * (y[2] \div g1)>>

FDiv(x, y) ==
    IF y[2] = 0 THEN (IF x[2] = 0 THEN NaN ELSE <<0, 1>>)
    ELSE IF x[2] = 0 THEN <<x[1] * (IF y[1] < 0 THEN -1 ELSE 1), 0>>
    ELSE IF y[1] = 0 THEN <<Sign(x[1]), 0>>
    ELSE IF x[2] = 1 /\ y[2] = 1 THEN Norm(x[1], y[1])
    ELSE FMul(x, Norm(y[2], y[1]))

FAdd(x, y) ==
    IF x[2] = 0 /\ y[2] = 0 THEN (IF x[1] = y[1] THEN x ELSE NaN)
    ELSE IF x[2] = 0 THEN x
    ELSE IF y[2] = 0 THEN y
    ELSE IF x[1] = 0 THEN y
    ELSE IF y[1] = 0 THEN x
    ELSE IF x[2] = y[2] THEN Norm(x[1] + y[1], x[2])
    ELSE LET g == Gcd(x[2], y[2])
         IN  Norm(x[1] * (y[2] \div g) + y[1] * (x[2] \div g), (x[2] \div g) * y[2])

FNeg(x) == <<-x[1], x[2]>>

FSub(x, y) == FAdd(x, FNeg(y))

\* ------------------------------------------------------------------ math.rs
RECURSIVE FallingProduct(_, _)
FallingProduct(a, b) == IF b <= 0 THEN 1 ELSE a * FallingProduct(a - 1, b - 1)

\* ln_factorial(a as u64) - ln_factorial((a - b) as u64), kept in the log domain
\* as [arg, huge]: the value ln(arg) - huge * H, where H = ln_factorial(x) for an
\* x >= 2^63 (what a negative a - b casts to): H > 10^20 dwarfs every ln(arg).
ln_generalized_factorial_short(a, b) ==
    IF a - b >= 0 THEN [arg |-> F64(FallingProduct(a, b - 1)), huge |-> 0]
    ELSE [arg |-> F64(FallingProduct(a, a)), huge |-> 1]

ln_generalized_factorial(a, b) ==
    IF a - b >= 0 THEN [arg |-> F64(FallingProduct(a, b)), huge |-> 0]
    ELSE [arg |-> F64(FallingProduct(a, a)), huge |-> 1]

LnSub(x, y) == [arg |-> FDiv(x.arg, y.arg), huge |-> x.huge - y.huge]

\* f64::exp: underflows to 0.0 below about -745, overflows to +inf above 709.
Exp(x) == IF x.huge > 0 THEN F64(0) ELSE IF x.huge < 0 THEN <<1, 0>> ELSE x.arg

Divisor_off_by_one(m, k) == k * (2 * m - k)

\* the divisor k * (2 * m - k + 1) of both coefficients of the recurrence
Divisor(m, k) == k * (2 * m - k + 1)

RECURSIVE gram_poly(_, _, _, _)
gram_poly(i, m, k, s) ==
    IF k = 0 /\ s = 0 THEN F64(1)
    ELSE IF k <= 0 THEN F64(0)
    ELSE LET part1 == FMul(FDiv(F64(4 * k - 2), F64(Divisor(m, k))),
                           FAdd(FMul(gram_poly(i, m, k - 1, s), F64(i)),
                                FMul(gram_poly(i, m, k - 1, s - 1), F64(s))))
             part2 == FMul(FDiv(F64((k - 1) * (2 * m + k)), F64(Divisor(m, k))),
                           gram_poly(i, m, k - 2, s))
         IN  FSub(part1, part2)

WeightTerm_swapped(i, m, k, t, s) ==
    FMul(FMul(FMul(F64(2 * k + 1),
                   Exp(LnSub(ln_generalized_factorial(2 * m, k),
                             ln_generalized_factorial(2 * m + k + 1, k + 1)))),
              gram_poly(m, i, k, 0)),
         gram_poly(t, m, k, s))

WeightTerm(i, m, k, t, s) ==
    FMul(FMul(FMul(F64(2 * k + 1),
                   Exp(LnSub(ln_generalized_factorial(2 * m, k),
                             ln_generalized_factorial(2 * m + k + 1, k + 1)))),
              gram_poly(i, m, k, 0)),
         gram_poly(t, m, k, s))

RECURSIVE WeightSum(_, _, _, _, _, _)
WeightSum(i, m, n, t, s, k) ==
    IF k < 0 THEN F64(0)
    ELSE FAdd(WeightSum(i, m, n, t, s, k - 1), WeightTerm(i, m, k, t, s))

weights(i, m, n, t, s) == WeightSum(i, m, n, t, s, n)


\* Every divisor evaluated in the recursion of gram_poly(_, m, k, s).
RECURSIVE gram_poly_divisors(_, _, _)
gram_poly_divisors(m, k, s) ==
    IF k = 0 /\ s = 0 THEN {}
    ELSE IF k <= 0 THEN {}
    ELSE {Divisor(m, k)} \cup gram_poly_divisors(m, k - 1, s)
                         \cup gram_poly_divisors(m, k - 1, s - 1)
                         \cup gram_poly_divisors(m, k - 2, s)

\* Every value a - b that ln_generalized_factorial casts to u64 under weights.
FactorialArgs(m, n) ==
    UNION {{2 * m - k, (2 * m + k + 1) - (k + 1)} : k \in 0..n}

WeightsDivisors(m, n, s) ==
    UNION {gram_poly_divisors(m, k, 0) \cup gram_poly_divisors(m, k, s) : k \in 0..n}

\* ---------------------------------------------------------------- filter.rs
\* Filter::new
Filter(radius, degree, derivative) ==
    [radius |-> radius, degree |-> degree, derivative |-> derivative]

weight_uncached_centre(self, i, t) ==
    weights(i, self.radius, self.degree, 0, self.derivative)

weight_uncached(self, i, t) ==
    weights(i, self.radius, self.degree, t, self.derivative)

weight(self, i, t) == weight_uncached(self, i, t)

\* the loop of smooth_point: the sum over i in -radius..=upto
RECURSIVE SmoothPointLoop(_, _, _, _)
SmoothPointLoop(self, t, window, upto) ==
    IF upto < -self.radius THEN F64(0)
    ELSE FAdd(SmoothPointLoop(self, t, window, upto - 1),
              FMul(weight(self, upto, t), window[(upto + self.radius) + 1]))

\* the assert! of smooth_point fails
smooth_point_panics(self, window) == Len(window) # 2 * self.radius + 1

\* the value smooth_point returns when its assert! holds
smooth_point(self, t, window) == SmoothPointLoop(self, t, window, self.radius)

\* the number of weight() calls one smooth_point makes
smooth_point_calls(self) == Cardinality(-self.radius..self.radius)

RECURSIVE smooth_edge(_, _, _, _)
smooth_edge(self, start_t, end_t, window) ==
    IF start_t > end_t THEN <<>>
    ELSE Append(smooth_edge(self, start_t, end_t - 1, window),
                smooth_point(self, end_t, window))

\* some smooth_point called by smooth_edge panics
smooth_edge_panics(self, start_t, end_t, window) ==
    start_t <= end_t /\ smooth_point_panics(self, window)

\* the number of weight() calls one smooth_edge makes
smooth_edge_calls(self, start_t, end_t) ==
    Cardinality(start_t..end_t) * smooth_point_calls(self)

\* data[a..b] of Rust (0-based, half open); SliceOK is its bounds check
SliceOK(data, a, b) == 0 <= a /\ a <= b /\ b <= Len(data)

Slice(data, a, b) == SubSeq(data, a + 1, b)

IsTrivial_lt(data) == Len(data) < 2

\* smooth: data.len() <= 2
IsTrivial(data) == Len(data) <= 2

\* smooth: data.len() < 2 * self.radius + 1
WindowTooLarge(self, data) == Len(data) < 2 * self.radius + 1

ReducedRadius_half(len) == len \div 2

\* the reduced radius of the window-too-large branch (usize division)
ReducedRadius(len) == (len - 1) \div 2

ReducedFilter_smoothing(self, data) ==
    Filter(ReducedRadius(Len(data)), self.degree, 0)

\* the Filter the window-too-large branch constructs
ReducedFilter(self, data) ==
    Filter(ReducedRadius(Len(data)), self.degree, self.derivative)

InteriorEnd_inclusive(self, data) == Len(data) - self.radius - 1

\* the exclusive end of the interior loop, data.len() - self.radius
InteriorEnd(self, data) == Len(data) - self.radius

LeftWindow_short(self, data) == Slice(data, 0, 2 * self.radius)

LeftWindow(self, data) == Slice(data, 0, 2 * self.radius + 1)

InteriorWindow(self, data, i) == Slice(data, i - self.radius, i + self.radius + 1)

RightWindow_leading(self, data) == Slice(data, 0, 2 * self.radius + 1)

RightWindow(self, data) == Slice(data, Len(data) - 2 * self.radius - 1, Len(data))

\* ------------------------------------------------------------------ inputs
RECURSIVE Pow(_, _)
Pow(b, e) == IF e = 0 THEN 1 ELSE b * Pow(b, e - 1)

\* shape d <= MaxDegree: the samples (j+1)^d of a polynomial of degree d (d = 1 is
\* the 1, 2, 3, ... of the tests); shape MaxDegree + 1: the alternating
\* 1, -2, 3, -4, ... of the tests, which is no polynomial of low degree
Alternating == MaxDegree + 1

Shapes == 0..Alternating

\* the sample at index j (0-based)
Sample(shape, j) ==
    IF shape = Alternating THEN (IF j % 2 = 0 THEN j + 1 ELSE -(j + 1))
    ELSE Pow(j + 1, shape)

Data(len, shape) == [j \in 1..len |-> F64(Sample(shape, j - 1))]

Filters ==
    {Filter(m, n, s) : m \in 0..MaxRadius, n \in 0..MaxDegree, s \in 0..MaxDerivative}

\* ------------------------------------------------------------------- state
VARIABLES
    filter,     \* the Filter the caller constructed
    self,       \* the Filter whose smooth is executing
    data,       \* the argument of smooth
    smoothed,   \* the output vector
    i,          \* the interior loop's index
    pc,         \* "idle", "smooth", "interior", "done", "panic"
    depth,      \* number of nested smooth calls made by the radius reduction
    evals,      \* number of weight() calls made since smooth was called
    query,      \* arguments of a direct call of math::weights
    w           \* its result

vars == <<filter, self, data, smoothed, i, pc, depth, evals, query, w>>

svars == <<filter, self, data, smoothed, i, pc, depth, evals>>

NoQuery == [i |-> 0, m |-> 0, n |-> 0, t |-> 0, s |-> 0]

NoResult == [done |-> FALSE, val |-> F64(0), divisors |-> {}, args |-> {}]

Init ==
    /\ filter \in Filters
    /\ self = filter
    /\ data = <<>>
    /\ smoothed = <<>>
    /\ i = 0
    /\ pc = "idle"
    /\ depth = 0
    /\ evals = 0
    /\ query = NoQuery
    /\ w = NoResult

\* Filter::new
New(m, n, s) ==
    /\ pc = "idle"
    /\ filter' = Filter(m, n, s)
    /\ self' = filter'
    /\ UNCHANGED <<data, smoothed, i, pc, depth, evals, query, w>>

\* the caller invokes filter.smooth(d)
Call(d) ==
    /\ pc = "idle"
    /\ data' = d
    /\ self' = filter
    /\ smoothed' = <<>>
    /\ i' = 0
    /\ depth' = 0
    /\ evals' = 0
    /\ pc' = "smooth"
    /\ UNCHANGED <<filter, query, w>>

\* smooth: data.len() <= 2
Trivial ==
    /\ pc = "smooth"
    /\ IsTrivial(data)
    /\ smoothed' = data
    /\ pc' = "done"
    /\ UNCHANGED <<filter, self, data, i, depth, evals, query, w>>

\* smooth: data.len() < 2 * radius + 1; calls smooth of a new Filter
Reduce ==
    /\ pc = "smooth"
    /\ ~IsTrivial(data)
    /\ WindowTooLarge(self, data)
    /\ self' = ReducedFilter(self, data)
    /\ depth' = depth + 1
    /\ UNCHANGED <<filter, data, smoothed, i, pc, evals, query, w>>

\* smooth: the left edge, smooth_edge(-radius, -1, data[0..2 * radius + 1])
LeftEdge ==
    /\ pc = "smooth"
    /\ ~IsTrivial(data)
    /\ ~WindowTooLarge(self, data)
    /\ IF \/ ~SliceOK(data, 0, 2 * self.radius + 1)
          \/ smooth_edge_panics(self, -self.radius, -1, LeftWindow(self, data))
       THEN pc' = "panic" /\ UNCHANGED <<smoothed, i, evals>>
       ELSE /\ smoothed' =
                smoothed \o smooth_edge(self, -self.radius, -1, LeftWindow(self, data))
            /\ evals' = evals + smooth_edge_calls(self, -self.radius, -1)
            /\ i' = self.radius
            /\ pc' = "interior"
    /\ UNCHANGED <<filter, self, data, depth, query, w>>

\* smooth: one iteration of `for i in radius..data.len() - radius`
Interior ==
    /\ pc = "interior"
    /\ i < InteriorEnd(self, data)
    /\ IF \/ ~SliceOK(data, i - self.radius, i + self.radius + 1)
          \/ smooth_point_panics(self, InteriorWindow(self, data, i))
       THEN pc' = "panic" /\ UNCHANGED <<smoothed, i, evals>>
       ELSE /\ smoothed' =
                Append(smoothed, smooth_point(self, 0, InteriorWindow(self, data, i)))
            /\ evals' = evals + smooth_point_calls(self)
            /\ i' = i + 1
            /\ pc' = "interior"
    /\ UNCHANGED <<filter, self, data, depth, query, w>>

\* smooth: the right edge, smooth_edge(1, radius, data[len - 2 * radius - 1..])
RightEdge ==
    /\ pc = "interior"
    /\ i >= InteriorEnd(self, data)
    /\ IF \/ ~SliceOK(data, Len(data) - 2 * self.radius - 1, Len(data))
          \/ smooth_edge_panics(self, 1, self.radius, RightWindow(self, data))
       THEN pc' = "panic" /\ UNCHANGED <<smoothed, evals>>
       ELSE /\ smoothed' =
                smoothed \o smooth_edge(self, 1, self.radius, RightWindow(self, data))
            /\ evals' = evals + smooth_edge_calls(self, 1, self.radius)
            /\ pc' = "done"
    /\ UNCHANGED <<filter, self, data, i, depth, query, w>>

\* smooth returns to the caller, who drops the vectors
Return ==
    /\ pc = "done"
    /\ pc' = "idle"
    /\ self' = filter
    /\ data' = <<>>
    /\ smoothed' = <<>>
    /\ i' = 0
    /\ depth' = 0
    /\ evals' = 0
    /\ UNCHANGED <<filter, query, w>>

Next ==
    \/ \E m \in 0..MaxRadius, n \in 0..MaxDegree, s \in 0..MaxDerivative : New(m, n, s)
    \/ \E len \in 0..MaxLen, shape \in Shapes : Call(Data(len, shape))
    \/ Trivial
    \/ Reduce
    \/ LeftEdge
    \/ Interior
    \/ RightEdge
    \/ Return

Spec == Init /\ [][Next]_vars

\* ------------------------------------------- direct calls of math::weights
Queries ==
    {[i |-> qi, m |-> qm, n |-> qn, t |-> qt, s |-> qs] :
        qi \in -MaxRadius..MaxRadius, qm \in 0..MaxRadius, qn \in 0..MaxDegree,
        qt \in -MaxRadius..MaxRadius, qs \in 0..MaxDerivative}

InitW ==
    /\ filter = Filter(0, 0, 0)
    /\ self = filter
    /\ data = <<>>
    /\ smoothed = <<>>
    /\ i = 0
    /\ pc = "idle"
    /\ depth = 0
    /\ evals = 0
    /\ query \in {q \in Queries : q.i \in -q.m..q.m /\ q.t \in -q.m..q.m}
    /\ w = NoResult

\* weights(i, m, n, t, s)
Weights ==
    /\ ~w.done
    /\ w' = [done     |-> TRUE,
             val      |-> weights(query.i, query.m, query.n, query.t, query.s),
             divisors |-> WeightsDivisors(query.m, query.n, query.s),
             args     |-> FactorialArgs(query.m, query.n)]
    /\ UNCHANGED <<svars, query>>

NextW == Weights

SpecW == InitW /\ [][NextW]_vars

\* -------------------------------------------------------------- properties
\* the k-th forward difference of the numerators of d at index j (1-based)
RECURSIVE ForwardDifference(_, _, _)
ForwardDifference(d, k, j) ==
    IF k = 0 THEN d[j][1]
    ELSE ForwardDifference(d, k - 1, j + 1) - ForwardDifference(d, k - 1, j)

\* the samples are the values of a polynomial of degree <= n in the index:
\* they are integers whose (n+1)-th forward differences all vanish
IsPolynomialOfDegree(d, n) ==
    /\ \A j \in 1..Len(d) : d[j][2] = 1
    /\ \A j \in 1..(Len(d) - (n + 1)) : ForwardDifference(d, n + 1, j) = 0

\* C1: with s = 0 and n <= 2m, smooth reproduces every sequence of length
\* >= 2m+1 whose samples are a polynomial of degree <= n in the index, at the
\* left edge, the interior and the right edge alike.
C1_ExactOnPolynomials ==
    (/\ pc = "done"
     /\ filter.derivative = 0
     /\ filter.degree <= 2 * filter.radius
     /\ Len(data) >= 2 * filter.radius + 1
     /\ IsPolynomialOfDegree(data, filter.degree))
    => smoothed = data

C1_Witness ==
    /\ pc = "done"
    /\ filter = Filter(2, 2, 0)
    /\ data = Data(7, 2)
    /\ evals = 35
    /\ smoothed = data

\* sum over i in -m..upto of weights(i, m, n, t, s) * W[i + m] (W 0-based)
RECURSIVE Convolution(_, _, _, _)
Convolution(f, t, W, upto) ==
    IF upto < -f.radius THEN F64(0)
    ELSE FAdd(Convolution(f, t, W, upto - 1),
              FMul(weights(upto, f.radius, f.degree, t, f.derivative),
                   W[upto + f.radius + 1]))

\* the output the window and offset policy prescribes at position p (0-based)
PolicyOutput(f, d, p) ==
    LET m    == f.radius
        len  == Len(d)
        last == len - m - 1
    IN  IF p < m
        THEN Convolution(f, p - m, [j \in 1..(2 * m + 1) |-> d[j]], m)
        ELSE IF p <= last
        THEN Convolution(f, 0, [j \in 1..(2 * m + 1) |-> d[p - m + j]], m)
        ELSE Convolution(f, p - last,
                         [j \in 1..(2 * m + 1) |-> d[len - 2 * m - 1 + j]], m)

\* C2: in the normal case (the call is not trivial and len >= 2m+1, m the radius
\* of the filter that executes) output[p] is the convolution of the first 2m+1
\* samples at t = p - m for p < m, of data[p-m .. p+m] at t = 0 for
\* m <= p <= len-m-1, and of the last 2m+1 samples at t = p - (len-m-1) beyond;
\* outputs are emitted in increasing p: the interior loop at index i has
\* emitted exactly the outputs 0..i-1.
C2_WindowPolicy ==
    /\ pc = "interior" => Len(smoothed) = i
    /\ (pc = "done" /\ ~IsTrivial(data))
       => /\ Len(data) >= 2 * self.radius + 1
          /\ Len(smoothed) = Len(data)
          /\ \A p \in 0..(Len(data) - 1) :
                smoothed[p + 1] = PolicyOutput(self, data, p)

C2_Witness ==
    /\ pc = "done"
    /\ self = Filter(2, 2, 0)
    /\ depth = 0
    /\ data = Data(7, Alternating)
    /\ smoothed = <<<<39, 35>>, <<-6, 7>>, <<-39, 35>>, <<52, 35>>,
                    <<-13, 7>>, <<6, 35>>, <<177, 35>>>>

\* the whole normal case of smooth for filter f
RECURSIVE InteriorOutputs(_, _, _)
InteriorOutputs(f, d, upto) ==
    IF upto < f.radius THEN <<>>
    ELSE Append(InteriorOutputs(f, d, upto - 1),
                smooth_point(f, 0, InteriorWindow(f, d, upto)))

NormalCase(f, d) ==
    smooth_edge(f, -f.radius, -1, LeftWindow(f, d))
        \o InteriorOutputs(f, d, Len(d) - f.radius - 1)
        \o smooth_edge(f, 1, f.radius, RightWindow(f, d))

\* C3: for 3 <= len(data) < 2m+1, smooth returns exactly what the filter
\* (floor((len(data)-1)/2), n, s) returns on the same data; n and s are passed
\* through unchanged.
C3_RadiusAutoReduction ==
    (/\ pc = "done"
     /\ 3 <= Len(data)
     /\ Len(data) < 2 * filter.radius + 1)
    => /\ self.degree = filter.degree
       /\ self.derivative = filter.derivative
       /\ smoothed = NormalCase(Filter((Len(data) - 1) \div 2,
                                       filter.degree, filter.derivative), data)

C3_Witness ==
    /\ pc = "done"
    /\ filter = Filter(2, 1, 0)
    /\ self = Filter(1, 1, 0)
    /\ depth = 1
    /\ data = Data(4, Alternating)
    /\ Len(smoothed) = 4
    /\ smoothed # data

\* C4: len(smooth(data)) = len(data) for every configuration and every length
\* >= 0: in the trivial regime, after a radius reduction and in the normal
\* regime, radius 0 included; smooth returns in every case.
C4_LengthPreserved ==
    /\ pc = "done" => Len(smoothed) = Len(data)
    /\ pc # "panic"
    /\ pc = "interior" => Len(smoothed) <= Len(data)

C4_Witness ==
    /\ pc = "done"
    /\ filter.radius = 0
    /\ filter.degree = 1
    /\ Len(data) = MaxLen
    /\ Len(smoothed) = MaxLen
    /\ smoothed[1] = NaN

\* C7: for len(data) <= 2, whatever the configuration, smooth returns data
\* element for element and evaluates no weight.
C7_TrivialIdentity ==
    (pc = "done" /\ Len(data) <= 2) => (smoothed = data /\ evals = 0 /\ depth = 0)

C7_Witness ==
    /\ pc = "done"
    /\ filter = Filter(0, 1, 1)
    /\ data = Data(2, Alternating)
    /\ smoothed = <<F64(1), F64(-2)>>
    /\ evals = 0

\* C8: no call of smooth_point made by smooth fails its window-length
\* assertion, in any regime and for no edge or interior output: each window
\* smooth is about to pass has exactly 2 * radius + 1 samples.
C8_AssertionHolds ==
    /\ pc # "panic"
    /\ (pc = "smooth" /\ ~IsTrivial(data) /\ ~WindowTooLarge(self, data))
       => ~smooth_point_panics(self, LeftWindow(self, data))
    /\ (pc = "interior" /\ i < InteriorEnd(self, data))
       => ~smooth_point_panics(self, InteriorWindow(self, data, i))
    /\ (pc = "interior" /\ i >= InteriorEnd(self, data))
       => ~smooth_point_panics(self, RightWindow(self, data))

C8_Witness ==
    /\ pc = "interior"
    /\ depth = 1
    /\ filter.radius = 2
    /\ self.radius = 1
    /\ Len(data) = 4
    /\ i = 2
    /\ Len(InteriorWindow(self, data, i)) = 3

ReducedOnce ==
    /\ depth <= 1
    /\ depth = 1 => /\ 1 <= self.radius
                    /\ self.radius < filter.radius
                    /\ 2 * self.radius + 1 <= Len(data)
                    /\ self.radius = (Len(data) - 1) \div 2
    /\ (pc = "smooth" /\ 3 <= Len(data) /\ Len(data) < 2 * self.radius + 1)
       => /\ depth = 0
          /\ ~WindowTooLarge(ReducedFilter(self, data), data)

\* a bound on the number of steps smooth has left: the nested calls it may
\* still make plus the outputs it has still to emit
StepsLeft ==
    IF pc = "smooth" THEN (1 - depth) + Len(data) + 2
    ELSE IF pc = "interior" THEN (Len(data) - i) + 1
    ELSE 0

\* C10: smooth terminates and delegates to a reduced-radius filter at most
\* once: for 3 <= len < 2m+1 the reduced radius m' satisfies 1 <= m' < m and
\* 2m'+1 <= len, so the delegated call takes the normal path; every step of a
\* running smooth strictly decreases StepsLeft, which is never negative.
C10_ReducesAtMostOnce ==
    /\ [](ReducedOnce /\ StepsLeft >= 0)
    /\ [][(pc \in {"smooth", "interior"}) => (StepsLeft' < StepsLeft)]_vars

C10_Witness ==
    /\ pc = "smooth"
    /\ depth = 1
    /\ filter.radius = 2
    /\ self.radius = 1
    /\ Len(data) = 3

\* ---------------------------------------------- properties of math::weights
InDomain(q) ==
    /\ q.m >= 0
    /\ 0 <= q.n /\ q.n <= 2 * q.m
    /\ 0 <= q.s /\ q.s <= q.n
    /\ q.i \in -q.m..q.m
    /\ q.t \in -q.m..q.m

\* C5: weights(i, 2, 2, 0, 0) for i = -2..2 are -3/35, 12/35, 17/35, 12/35,
\* -3/35 and weights(i, 2, 2, 0, 1) are -2/10, -1/10, 0, 1/10, 2/10.
C5_KnownWeights ==
    (w.done /\ query.m = 2 /\ query.n = 2 /\ query.t = 0 /\ query.i \in -2..2)
    => /\ query.s = 0 =>
            w.val = <<Norm(-3, 35), Norm(12, 35), Norm(17, 35),
                      Norm(12, 35), Norm(-3, 35)>>[query.i + 3]
       /\ query.s = 1 =>
            w.val = <<Norm(-2, 10), Norm(-1, 10), Norm(0, 10),
                      Norm(1, 10), Norm(2, 10)>>[query.i + 3]

C5_Witness ==
    /\ w.done
    /\ query = [i |-> -1, m |-> 2, n |-> 2, t |-> 0, s |-> 1]
    /\ w.val = <<-1, 10>>

\* C6: weights(i, m, n, 0, 0) = weights(-i, m, n, 0, 0) for every m >= 0,
\* 0 <= n <= 2m and i in -m..m.
C6_CentreSymmetry ==
    (/\ w.done
     /\ query.t = 0
     /\ query.s = 0
     /\ query.n <= 2 * query.m
     /\ query.i \in -query.m..query.m)
    => w.val = weights(-query.i, query.m, query.n, 0, 0)

C6_Witness ==
    /\ w.done
    /\ query = [i |-> -2, m |-> 2, n |-> 3, t |-> 0, s |-> 0]
    /\ w.val = <<-3, 35>>

\* C9: for m >= 0, 0 <= n <= 2m, 0 <= s <= n and i, t in -m..m, every divisor
\* k * (2m - k + 1) of the gram_poly recursion is non-zero and every a - b
\* that ln_generalized_factorial casts to u64 is >= 0; the weight is finite.
C9_InDomainWellDefined ==
    (w.done /\ InDomain(query))
    => /\ 0 \notin w.divisors
       /\ \A a \in w.args : a >= 0
       /\ IsFinite(w.val)

C9_Witness ==
    /\ w.done
    /\ query = [i |-> 1, m |-> 1, n |-> 2, t |-> -1, s |-> 1]
    /\ w.divisors = {2}
    /\ w.args = {0, 1, 2}
    /\ IsFinite(w.val)
====
